---- MODULE Spec2Model ----
(***************************************************************************)
(* MonotonicQueue<T> of src/lib.rs: a VecDeque<T> whose push_by evicts     *)
(* from the back every element the caller's predicate calls less than the  *)
(* incoming item, and then appends the item.                               *)
(*                                                                         *)
(* T is modelled as a record [id, val]: val is the integer the predicates  *)
(* compare, id is the ordinal of the push_by call that moved the element   *)
(* into the queue, so that two equal values remain two elements.           *)
(***************************************************************************)
EXTENDS Integers, Sequences, FiniteSets, TLC

\* Bounds of the model.
MaxPush == 4    \* push_by calls in one run
MaxVal == 3     \* items carry the values 1..MaxVal

Vals == 1..MaxVal

\* The predicates a caller passes as is_less: the two strict ones of the
\* tests and the doc examples, and the non-strict s >= e of the doc comment.
Preds == {"lt", "gt", "ge"}

\* Option<T>
None == <<>>
Some(x) == <<x>>

VARIABLES
    dq,       \* MonotonicQueue.dq, front first
    pushed,   \* history: every item handed to push_by, in call order
    evicted,  \* history: every element push_by dropped from the back, in order
    popped,   \* history: every element pop returned, in order
    preds,    \* history: the predicates the push_by calls used
    call      \* the last call: its name, arguments, the queue before it, its result

vars == <<dq, pushed, evicted, popped, preds, call>>

----------------------------------------------------------------------------
(* The caller's predicate, by name. *)
is_less(p, a, b) ==
    CASE p = "lt" -> a.val < b.val
      [] p = "gt" -> a.val > b.val
      [] p = "ge" -> a.val >= b.val

(* VecDeque<T>, as MonotonicQueue uses it. *)
front(d) == IF Len(d) = 0 THEN None ELSE Some(d[1])

back(d) == IF Len(d) = 0 THEN None ELSE Some(d[Len(d)])

pop_front(d) ==
    IF Len(d) = 0 THEN [dq |-> d, ret |-> None]
    ELSE [dq |-> SubSeq(d, 2, Len(d)), ret |-> Some(d[1])]

pop_back(d) ==
    IF Len(d) = 0 THEN [dq |-> d, ret |-> None]
    ELSE [dq |-> SubSeq(d, 1, Len(d) - 1), ret |-> Some(d[Len(d)])]

(* Faulty variant of push_back: the item goes to the front. *)
push_front(d, x) == <<x>> \o d

push_back(d, x) == Append(d, x)

(* MonotonicQueue::new *)
new == <<>>

(* Every method is modelled by the queue it leaves (dq) and the value it   *)
(* returns (ret).                                                          *)

(* Faulty variant of peek: it shows the back element. *)
peek_back(d) == [dq |-> d, ret |-> back(d)]

(* Faulty variant of peek: it indexes the first slot and so fails on an    *)
(* empty queue.                                                            *)
peek_index(d) ==
    IF Len(d) = 0 THEN [dq |-> d, ret |-> Some("panic")]
    ELSE [dq |-> d, ret |-> Some(d[1])]

(* Faulty variant of peek: it takes the front element out. *)
peek_pop(d) == pop_front(d)

(* MonotonicQueue::peek *)
peek(d) == [dq |-> d, ret |-> front(d)]

(* Faulty variant of pop: it takes the back element. *)
pop_last(d) == pop_back(d)

(* MonotonicQueue::pop *)
pop(d) == pop_front(d)

(* Faulty variant of the loop: `if let` for `while let`, so at most one     *)
(* element is dropped.                                                     *)
evict_once(d, item, p) ==
    LET existing_item == back(d) IN
    IF existing_item = None
    THEN [dq |-> d, ev |-> <<>>, calls |-> 0]
    ELSE IF is_less(p, existing_item[1], item)
         THEN [dq |-> pop_back(d).dq, ev |-> pop_back(d).ret, calls |-> 1]
         ELSE [dq |-> d, ev |-> <<>>, calls |-> 1]

(* Faulty variant of the loop: the test is !is_less(&item, existing_item), *)
(* so an element equal to the item is dropped too.                         *)
RECURSIVE evict_not_greater(_, _, _)
evict_not_greater(d, item, p) ==
    LET existing_item == back(d) IN
    IF existing_item = None
    THEN [dq |-> d, ev |-> <<>>, calls |-> 0]
    ELSE IF ~is_less(p, item, existing_item[1])
         THEN LET b == pop_back(d)
                  r == evict_not_greater(b.dq, item, p)
              IN  [dq |-> r.dq, ev |-> b.ret \o r.ev, calls |-> r.calls + 1]
         ELSE [dq |-> d, ev |-> <<>>, calls |-> 1]

(* Faulty variant of the loop: a retain over the whole queue, so every     *)
(* element less than the item is dropped, wherever it stands, and is_less  *)
(* is evaluated once per element.                                          *)
RECURSIVE evict_retain(_, _, _)
evict_retain(d, item, p) ==
    IF Len(d) = 0
    THEN [dq |-> d, ev |-> <<>>, calls |-> 0]
    ELSE LET b == pop_back(d)
             r == evict_retain(b.dq, item, p)
         IN  IF is_less(p, b.ret[1], item)
             THEN [dq |-> r.dq, ev |-> b.ret \o r.ev, calls |-> r.calls + 1]
             ELSE [dq |-> push_back(r.dq, b.ret[1]), ev |-> r.ev,
                   calls |-> r.calls + 1]

(* The while-let loop of push_by: the queue it leaves, the elements it     *)
(* dropped (first dropped first) and the number of is_less evaluations.    *)
RECURSIVE evict_loop(_, _, _)
evict_loop(d, item, p) ==
    LET existing_item == back(d) IN
    IF existing_item = None
    THEN [dq |-> d, ev |-> <<>>, calls |-> 0]
    ELSE IF is_less(p, existing_item[1], item)
         THEN LET b == pop_back(d)
                  r == evict_loop(b.dq, item, p)
              IN  [dq |-> r.dq, ev |-> b.ret \o r.ev, calls |-> r.calls + 1]
         ELSE [dq |-> d, ev |-> <<>>, calls |-> 1]

(* Faulty variant of push_by: the item is appended in the else branch and *)
(* again after the loop.                                                   *)
push_by_twice(d, item, p) ==
    LET r == evict_loop(d, item, p)
        kept == IF Len(r.dq) = 0 THEN r.dq ELSE push_back(r.dq, item)
    IN  [dq |-> push_back(kept, item), ev |-> r.ev, calls |-> r.calls]

(* Faulty variant of push_by: the item is appended in the else branch     *)
(* only, so it is lost when the loop ends on an empty queue.               *)
push_by_in_else(d, item, p) ==
    LET r == evict_loop(d, item, p)
    IN  [dq |-> IF Len(r.dq) = 0 THEN r.dq ELSE push_back(r.dq, item),
         ev |-> r.ev, calls |-> r.calls]

(* MonotonicQueue::push_by *)
push_by(d, item, p) ==
    LET r == evict_loop(d, item, p)
    IN  [dq |-> push_back(r.dq, item), ev |-> r.ev, calls |-> r.calls]

----------------------------------------------------------------------------
Init ==
    /\ dq = new
    /\ pushed = <<>>
    /\ evicted = <<>>
    /\ popped = <<>>
    /\ preds = {}
    /\ call = [op |-> "new", pre |-> <<>>, item |-> None, pred |-> "none",
               ret |-> None, ev |-> 0, calls |-> 0]

PushBy ==
    /\ Len(pushed) < MaxPush
    /\ \E v \in Vals, p \in Preds :
         LET item == [id |-> Len(pushed) + 1, val |-> v]
             r == push_by(dq, item, p)
         IN  /\ dq' = r.dq
             /\ pushed' = Append(pushed, item)
             /\ evicted' = evicted \o r.ev
             /\ preds' = preds \cup {p}
             /\ call' = [op |-> "push_by", pre |-> dq, item |-> Some(item),
                         pred |-> p, ret |-> None, ev |-> Len(r.ev),
                         calls |-> r.calls]
    /\ UNCHANGED popped

Pop ==
    LET r == pop(dq)
    IN  /\ dq' = r.dq
        /\ popped' = popped \o r.ret
        /\ call' = [op |-> "pop", pre |-> dq, item |-> None, pred |-> "none",
                    ret |-> r.ret, ev |-> 0, calls |-> 0]
        /\ UNCHANGED <<pushed, evicted, preds>>

Peek ==
    LET r == peek(dq)
    IN  /\ dq' = r.dq
        /\ call' = [op |-> "peek", pre |-> dq, item |-> None, pred |-> "none",
                    ret |-> r.ret, ev |-> 0, calls |-> 0]
        /\ UNCHANGED <<pushed, evicted, popped, preds>>

Next == PushBy \/ Pop \/ Peek

Spec == Init /\ [][Next]_vars

(* Scenario C of the specification: the items 5, 3, 4, 6, 7.  ScenarioSpec  *)
(* runs push_by alone, as many calls as the scenario has items, each with   *)
(* one of the scenario's values and any predicate.                          *)
ScenarioC == <<5, 3, 4, 6, 7>>

ScenarioPush ==
    /\ Len(pushed) < Len(ScenarioC)
    /\ \E v \in {ScenarioC[i] : i \in 1..Len(ScenarioC)}, p \in Preds :
         LET item == [id |-> Len(pushed) + 1, val |-> v]
             r == push_by(dq, item, p)
         IN  /\ dq' = r.dq
             /\ pushed' = Append(pushed, item)
             /\ evicted' = evicted \o r.ev
             /\ preds' = preds \cup {p}
             /\ call' = [op |-> "push_by", pre |-> dq, item |-> Some(item),
                         pred |-> p, ret |-> None, ev |-> Len(r.ev),
                         calls |-> r.calls]
    /\ UNCHANGED popped

ScenarioSpec == Init /\ [][ScenarioPush]_vars

----------------------------------------------------------------------------
(* Helpers of the properties. *)
ValsOf(s) == [i \in 1..Len(s) |-> s[i].val]

IdsOf(s) == [i \in 1..Len(s) |-> s[i].id]

Range(s) == {s[i] : i \in 1..Len(s)}

MaxOf(S) == CHOOSE m \in S : \A x \in S : x <= m

MinOf(S) == CHOOSE m \in S : \A x \in S : m <= x

NoDuplicates(s) == \A i, j \in 1..Len(s) : i # j => s[i] # s[j]

\* No pop has returned an element: the run so far is push_by calls on a queue
\* that started empty (peek, and pop on the empty queue, leave it as it is).
OnlyPushes == popped = <<>>

\* Every push_by call so far passed the predicate p.
AllPushesUse(p) == preds \subseteq {p}

----------------------------------------------------------------------------
\* C1: Monotonicity. After any sequence of push_by calls on an empty queue
\* that all pass the same predicate p, no adjacent pair (a, b) of the queue,
\* front to back, has is_less(a, b).
C1_Monotonicity ==
    \A p \in Preds :
        (OnlyPushes /\ AllPushesUse(p)) =>
            \A i \in 1..(Len(dq) - 1) : ~is_less(p, dq[i], dq[i + 1])

\* C1's case: pushes with one predicate, one of which evicted, and a queue
\* holding an adjacent pair.
C1_Witness ==
    /\ OnlyPushes /\ preds = {"lt"}
    /\ call.op = "push_by" /\ call.ev >= 1
    /\ Len(dq) >= 2

\* C2: FIFO. Front to back, the queue holds its survivors in the order they
\* were pushed, and pop on a non-empty queue returns the survivor pushed
\* earliest, whatever push_by evicted before.
C2_Fifo ==
    /\ \A i, j \in 1..Len(dq) : i < j => dq[i].id < dq[j].id
    /\ (call.op = "pop" /\ Len(call.pre) > 0) =>
          /\ Len(call.ret) = 1
          /\ call.ret[1] \in Range(call.pre)
          /\ \A e \in Range(call.pre) : call.ret[1].id <= e.id

\* C2's case: a pop from a queue of several survivors after an eviction.
C2_Witness ==
    /\ call.op = "pop" /\ Len(call.pre) >= 2
    /\ Len(evicted) >= 1

\* C3: The front is the extreme value. After push_by calls only, peek returns
\* the maximum of the values pushed when every call passed less-than, and
\* the minimum when every call passed greater-than.
C3_FrontExtreme ==
    (OnlyPushes /\ Len(pushed) > 0) =>
        /\ AllPushesUse("lt") =>
              peek(dq).ret = Some(dq[1])
              /\ dq[1].val = MaxOf(Range(ValsOf(pushed)))
        /\ AllPushesUse("gt") =>
              peek(dq).ret = Some(dq[1])
              /\ dq[1].val = MinOf(Range(ValsOf(pushed)))
        /\ (call.op = "peek" /\ (AllPushesUse("lt") \/ AllPushesUse("gt"))) =>
              call.ret = peek(dq).ret

\* C3's case: the documented example, push 1 then 2 with less-than, then peek
\* showing 2.
C3_Witness ==
    /\ OnlyPushes /\ preds = {"lt"}
    /\ ValsOf(pushed) = <<1, 2>>
    /\ call.op = "peek" /\ call.ret = Some([id |-> 2, val |-> 2])

PushedEqualToBack ==
    /\ call.op = "push_by"
    /\ Len(call.pre) > 0
    /\ ~is_less(call.pred, call.pre[Len(call.pre)], call.item[1])
    /\ ~is_less(call.pred, call.item[1], call.pre[Len(call.pre)])

\* C5: Duplicate tolerance. A push_by whose item equals the back element
\* under is_less evicts nothing: the queue is the old queue with the item
\* appended, one longer.
C5_DuplicateTolerance ==
    PushedEqualToBack =>
        /\ call.ev = 0
        /\ dq = Append(call.pre, call.item[1])
        /\ Len(dq) = Len(call.pre) + 1
        /\ dq[Len(dq) - 1] = call.pre[Len(call.pre)]

\* C5's case: a push of the back element's value with a strict predicate.
C5_Witness ==
    /\ PushedEqualToBack
    /\ call.pred = "lt"
    /\ Len(call.pre) >= 2

\* C6: Empty-queue behaviour. peek and pop on an empty queue, new or emptied
\* by pops, return None and leave it empty; and every operation can be called
\* in every state, empty or not.
C6_EmptyQueue ==
    /\ (call.op \in {"peek", "pop"} /\ Len(call.pre) = 0) =>
          (call.ret = None /\ dq = <<>>)
    /\ call.op = "new" => dq = <<>>
    /\ Len(dq) = 0 =>
          /\ peek(dq) = [dq |-> <<>>, ret |-> None]
          /\ pop(dq) = [dq |-> <<>>, ret |-> None]
    /\ ENABLED Peek
    /\ ENABLED Pop
    /\ Len(pushed) < MaxPush => ENABLED PushBy

\* C6's case: a peek or pop that found the queue empty again after pops had
\* emptied it.
C6_Witness ==
    /\ call.op \in {"peek", "pop"} /\ Len(call.pre) = 0
    /\ Len(popped) >= 1

\* C7: Bounded eviction. After n push_by calls on an empty queue, the number
\* of evicted elements is at most n minus the length of the queue, and no
\* pushed element was evicted twice.
C7_BoundedEviction ==
    OnlyPushes =>
        /\ Len(evicted) <= Len(pushed) - Len(dq)
        /\ NoDuplicates(evicted)
        /\ Range(evicted) \subseteq Range(pushed)

\* C7's case: pushes that evicted in two different calls and left survivors.
C7_Witness ==
    /\ OnlyPushes
    /\ Len(evicted) >= 2 /\ call.op = "push_by" /\ call.ev = 1
    /\ Len(dq) >= 2

\* C8: push_by always inserts. After push_by the queue is non-empty, its back
\* element is the item, and its length is old length - evicted + 1, between
\* 1 and old length + 1.
C8_PushInserts ==
    call.op = "push_by" =>
        /\ Len(dq) > 0
        /\ dq[Len(dq)] = call.item[1]
        /\ Len(dq) = Len(call.pre) - call.ev + 1
        /\ 1 <= Len(dq) /\ Len(dq) <= Len(call.pre) + 1

\* C8's case: a push_by that evicted some elements and kept others.
C8_Witness ==
    /\ call.op = "push_by"
    /\ call.ev >= 1 /\ call.ev < Len(call.pre)

\* C9: peek is read-only. peek returns the front element, or None, and leaves
\* the queue as it was, so the calls that follow return what they would have
\* returned without it.
C9_PeekReadOnly ==
    call.op = "peek" =>
        /\ call.ret = IF Len(call.pre) = 0 THEN None ELSE Some(call.pre[1])
        /\ dq = call.pre
        /\ peek(dq).ret = call.ret
        /\ pop(dq) = pop(call.pre)
        /\ \A v \in Vals, p \in Preds :
              LET item == [id |-> Len(pushed) + 1, val |-> v]
              IN  push_by(dq, item, p) = push_by(call.pre, item, p)

\* C9's case: a peek at a queue of several elements.
C9_Witness ==
    /\ call.op = "peek"
    /\ Len(call.pre) >= 2 /\ Len(call.ret) = 1

\* C10: pop removes exactly the front. On a non-empty queue pop returns what
\* peek would have shown, and the queue is the old one without its first
\* element.
C10_PopRemovesFront ==
    (call.op = "pop" /\ Len(call.pre) > 0) =>
        /\ call.ret = peek(call.pre).ret
        /\ call.ret = Some(call.pre[1])
        /\ Len(dq) = Len(call.pre) - 1
        /\ \A i \in 1..Len(dq) : dq[i] = call.pre[i + 1]
        /\ popped[Len(popped)] = call.pre[1]

\* C10's case: a pop from a queue of three elements.
C10_Witness ==
    /\ call.op = "pop"
    /\ Len(call.pre) >= 3 /\ Len(dq) >= 2

\* The number of front elements push_by keeps: the largest index k of s with
\* is_less(s[k], item) false, 0 if there is none.
KeepLen(s, item, p) ==
    MaxOf({0} \cup {k \in 1..Len(s) : ~is_less(p, s[k], item)})

Reverse(s) == [i \in 1..Len(s) |-> s[Len(s) + 1 - i]]

\* C11: push_by against the reference. The queue after push_by is the first
\* KeepLen elements of the old queue followed by the item; the elements
\* behind them, and no others, were evicted, back first.  Pushing 5, 3, 4,
\* 6, 7 with greater-than on an empty queue leaves [3, 4, 6, 7].
C11_Reference ==
    /\ call.op = "push_by" =>
          LET k == KeepLen(call.pre, call.item[1], call.pred)
              n == Len(call.pre)
          IN  /\ dq = SubSeq(call.pre, 1, k) \o call.item
              /\ call.ev = n - k
              /\ SubSeq(evicted, Len(evicted) - call.ev + 1, Len(evicted))
                    = Reverse(SubSeq(call.pre, k + 1, n))
    /\ (preds = {"gt"} /\ ValsOf(pushed) = ScenarioC) =>
          ValsOf(dq) = <<3, 4, 6, 7>>

\* C11's case: a push_by that kept an element less than the item because an
\* element behind it was not less, and evicted the ones behind that.
C11_Witness ==
    /\ call.op = "push_by"
    /\ call.ev >= 1
    /\ \E i \in 1..(Len(dq) - 1) : is_less(call.pred, dq[i], call.item[1])

\* Scenario C has run: 5, 3, 4, 6, 7 pushed with greater-than.
C11_ScenarioRan ==
    /\ preds = {"gt"} /\ ValsOf(pushed) = ScenarioC
    /\ ValsOf(dq) = <<3, 4, 6, 7>> /\ ValsOf(evicted) = <<5>>

\* C12: push_by's work. A push_by that evicts k elements of a queue of n has
\* k <= n and evaluates is_less k times when the evictions leave the queue
\* empty (k = n) and k + 1 times otherwise; it then appends the item and
\* returns, so its work is bounded by the length of the queue it found.
C12_Work ==
    call.op = "push_by" =>
        /\ call.ev <= Len(call.pre)
        /\ call.calls = IF call.ev = Len(call.pre) THEN call.ev
                        ELSE call.ev + 1
        /\ call.calls <= Len(call.pre)
        /\ Len(dq) = Len(call.pre) - call.ev + 1
        /\ dq[Len(dq)] = call.item[1]

\* C12's case: a push_by that evicted several elements and stopped at one it
\* kept.
C12_Witness ==
    /\ call.op = "push_by"
    /\ call.ev >= 2 /\ call.ev < Len(call.pre)
    /\ call.calls = call.ev + 1

\* C12's other case: a push_by whose evictions emptied the queue.
C12_Emptied ==
    /\ call.op = "push_by"
    /\ call.ev >= 2 /\ call.ev = Len(call.pre)
    /\ call.calls = call.ev

\* The ordinal of the element the most recent successful pop returned, 0 if
\* no pop has returned an element.
LastPoppedId == IF Len(popped) = 0 THEN 0 ELSE popped[Len(popped)].id

\* The values pushed after that element was pushed.
Window == {pushed[i].val : i \in (LastPoppedId + 1)..Len(pushed)}

\* C13: Sliding-window maximum. With less-than on every push, under any
\* interleaving of push_by and pop, the queue is empty exactly when no value
\* was pushed after the element last popped, and otherwise peek returns the
\* maximum of the values pushed after it.
C13_WindowMax ==
    AllPushesUse("lt") =>
        /\ (Len(dq) = 0) <=> (Window = {})
        /\ Window # {} =>
              /\ Len(peek(dq).ret) = 1
              /\ peek(dq).ret[1].val = MaxOf(Window)
        /\ (call.op = "peek" /\ Window # {}) =>
              call.ret = peek(dq).ret

\* C13's case: a peek after pushes that evicted, a pop, and pushes after the
\* pop, when older and larger values than the window's lie outside it.
C13_Witness ==
    /\ preds = {"lt"}
    /\ call.op = "peek" /\ Len(call.ret) = 1
    /\ Len(popped) >= 1 /\ Len(evicted) >= 1
    /\ Cardinality(Window) >= 1
    /\ MaxOf(Window) < MaxOf(Range(ValsOf(pushed)))

\* The strict total orders on integers among the predicates.
StrictOrders == {"lt", "gt"}

\* C14: Pairwise monotonicity. With one strict order on every push, under any
\* interleaving of push_by and pop, no two positions i < j of the queue have
\* is_less(q[i], q[j]): the queue is non-increasing under less-than and
\* non-decreasing under greater-than.
C14_Pairwise ==
    /\ \A p \in StrictOrders :
          AllPushesUse(p) =>
              \A i, j \in 1..Len(dq) : i < j => ~is_less(p, dq[i], dq[j])
    /\ AllPushesUse("lt") =>
          \A i, j \in 1..Len(dq) : i < j => dq[i].val >= dq[j].val
    /\ AllPushesUse("gt") =>
          \A i, j \in 1..Len(dq) : i < j => dq[i].val <= dq[j].val

\* C14's case: after a pop, a queue of three under one strict order whose
\* first and last elements, which are not neighbours, differ.
C14_Witness ==
    /\ preds = {"lt"}
    /\ Len(popped) >= 1
    /\ Len(dq) >= 3 /\ dq[1].val > dq[Len(dq)].val

\* C15: Conservation. Under any interleaving of push_by and pop, the number
\* of push_by calls is the number of popped elements plus the number of
\* evicted elements plus the length of the queue, and every pushed element
\* is in exactly one of the three groups, once.
C15_Conservation ==
    /\ Len(pushed) = Len(popped) + Len(evicted) + Len(dq)
    /\ Range(popped) \cup Range(evicted) \cup Range(dq) = Range(pushed)
    /\ Range(popped) \cap Range(evicted) = {}
    /\ Range(popped) \cap Range(dq) = {}
    /\ Range(evicted) \cap Range(dq) = {}
    /\ NoDuplicates(popped) /\ NoDuplicates(evicted) /\ NoDuplicates(dq)
    /\ NoDuplicates(pushed)

\* C15's case: all three groups hold elements.
C15_Witness ==
    /\ Len(popped) >= 1 /\ Len(evicted) >= 1 /\ Len(dq) >= 2

====
